---- MODULE Spec2Model ----
(***************************************************************************)
(* The ZenB kernel (services/ZenBKernel.ts): the dispatch pipeline         *)
(* guard -> persist -> reduce -> notify over the RuntimeState, the belief  *)
(* estimator and the safety plane, with the callers of dispatch,           *)
(* ingestObservation and loadSafetyRegistry as the environment.            *)
(*                                                                         *)
(* Numbers.  Times (dt, phaseElapsed, phaseDuration, sessionDuration) are  *)
(* fixed-point with Second = 1.0 s.  The four belief scalars are           *)
(* fixed-point with Unit = 1.0;                                            *)
(* the inputs below are chosen so that every product and quotient of       *)
(* FreeEnergyController.update is exact in that representation.            *)
(* riskLevel and hr_confidence are in hundredths.  Event timestamps are    *)
(* left out of the event records: neither the guard nor the reducer reads  *)
(* them.  Date.now() is an input of each call.                             *)
(***************************************************************************)
EXTENDS Integers, Sequences, FiniteSets, TLC

VARIABLES
    state,          \* ZenBKernel.state : RuntimeState
    eventLog,       \* the events the PersistentEventStore holds, oldest first
    logBuffer,      \* ZenBKernel.logBuffer, most recent first
    callCount,      \* history: calls of the kernel's methods so far, from outside
    lastIntention,  \* history: the intention, when the latest call was a dispatch
    lastEnv,        \* history: what the latest call read from outside the kernel
    storeUp,        \* whether the PersistentEventStore accepts appends
    lockOrigin,     \* history: who made the event that set status to SAFETY_LOCK
    subscribers,    \* ZenBKernel.subscribers: the callbacks of the Set, in insertion order
    received,       \* per callback, the RuntimeState value it was last called with
    rounds          \* history: the rounds of callback invocations the latest call made

vars == <<state, eventLog, logBuffer, callCount, lastIntention, lastEnv, storeUp, lockOrigin,
          subscribers, received, rounds>>

-----------------------------------------------------------------------------
(* Bounds of the model *)

MaxCalls == 5        \* calls from outside in one behaviour, the constructor's BOOT included
MaxNow == 1          \* Date.now() reads a value in 0..MaxNow
MaxEvents == 53      \* a long run ticks while the event log is shorter than this

(* Representation *)

Unit == 10000000     \* 1.0 of a belief scalar
Second == 100        \* 1.0 of a time in seconds
NULL == "null"

Min(a, b) == IF a < b THEN a ELSE b
Max(a, b) == IF a > b THEN a ELSE b
Abs(a) == IF a < 0 THEN 0 - a ELSE a

Times == 0..MaxNow

-----------------------------------------------------------------------------
(* Collaborators that are imported by the kernel: ../types, ./phaseMachine, *)
(* ./eventStore                                                            *)

PhaseOrder == <<"inhale", "holdIn", "exhale", "holdOut">>
BreathPhases == {"inhale", "holdIn", "exhale", "holdOut"}

\* The pattern catalog, keyed by pattern id.
BREATHING_PATTERNS ==
    [id \in {"4-7-8"} |-> [timings |-> [inhale |-> 4 * Second, holdIn |-> 7 * Second,
                                  exhale |-> 8 * Second, holdOut |-> 0]]]

PhaseIndex(phase) == CHOOSE i \in 1..4 : PhaseOrder[i] = phase
PhaseAfter(phase, n) == PhaseOrder[((PhaseIndex(phase) - 1 + n) % 4) + 1]

\* The next phase in the fixed cycle order, skipping phases of duration <= 0;
\* inhale when every phase is of duration <= 0.
nextPhaseSkipZero(phase, pattern) ==
    LET timings == BREATHING_PATTERNS[pattern].timings
        steps == {n \in 1..4 : timings[PhaseAfter(phase, n)] > 0}
    IN IF steps = {} THEN "inhale"
       ELSE PhaseAfter(phase, CHOOSE n \in steps : \A m \in steps : n <= m)

isCycleBoundary(phase) == phase = "inhale"

\* PersistentEventStore.append: the store takes the event, or reports a failure
\* and keeps what it had.
append(log, event, ok) == IF ok THEN Append(log, event) ELSE log

-----------------------------------------------------------------------------
(* KernelEvent *)

Boot == [type |-> "BOOT"]
LoadProtocol(id) == [type |-> "LOAD_PROTOCOL", patternId |-> id]
StartSession == [type |-> "START_SESSION"]
Interruption == [type |-> "INTERRUPTION", kind |-> "pause"]
Resume == [type |-> "RESUME"]
Halt == [type |-> "HALT", reason |-> "cleanup"]
PhaseTransition(from, to) == [type |-> "PHASE_TRANSITION", from |-> from, to |-> to]
CycleComplete(count) == [type |-> "CYCLE_COMPLETE", count |-> count]
Tick(dt) == [type |-> "TICK", dt |-> dt]
Adaptation == [type |-> "ADAPTATION", parameter |-> "timings.inhale"]
SafetyInterdiction(riskLevel, action) ==
    [type |-> "SAFETY_INTERDICTION", riskLevel |-> riskLevel, action |-> action]

NoOverride == [type |-> "NONE"]     \* intercept's null
NoIntention == [type |-> "NONE"]    \* lastIntention when the latest call was no dispatch

\* The callbacks that subscribe.  What a callback does when it is invoked is
\* an input of the call: nothing, or [by, target]: callback by calls the
\* unsubscribe function of callback target from inside its invocation.
Callbacks == {"a", "b"}
NoReaction == [by |-> "none", target |-> "none"]
Reactions == {NoReaction} \cup {[by |-> c, target |-> d] : c \in Callbacks, d \in Callbacks}

NoEnv == [now |-> 0, hidden |-> FALSE, reaction |-> NoReaction]

TickDts == {2 * Second, 11 * Second}
PatternIds == {"4-7-8", "unknown"}

\* What a caller of dispatch passes: every variant of the union.
CallerEvents ==
    {Boot, StartSession, Interruption, Resume, Halt, Adaptation}
    \cup {LoadProtocol(id) : id \in PatternIds}
    \cup {PhaseTransition("inhale", "exhale")}
    \cup {CycleComplete(c) : c \in {0, 2}}
    \cup {Tick(dt) : dt \in TickDts}
    \cup {SafetyInterdiction(95, "EMERGENCY_DAMPENING")}

-----------------------------------------------------------------------------
(* RuntimeState *)

NoObservation == [heart_rate |-> 0, hr_confidence |-> 0]   \* lastObservation == null
Observations == {[heart_rate |-> 120, hr_confidence |-> 90]}

EmptyRegistry == [id \in {} |-> [safety_lock_until |-> 0]]
Registries == {EmptyRegistry, [id \in {"4-7-8"} |-> [safety_lock_until |-> 1]]}

getInitialState ==
    [status |-> "IDLE",
     bootTimestamp |-> 0,
     pattern |-> NULL,
     phase |-> "inhale",
     phaseElapsed |-> 0,
     phaseDuration |-> 0,
     cycleCount |-> 0,
     sessionDuration |-> 0,
     belief |-> [arousal |-> Unit \div 2,
                 attention |-> Unit \div 2,
                 rhythm_alignment |-> 0,
                 prediction_error |-> 0],
     lastObservation |-> NoObservation,
     safetyRegistry |-> EmptyRegistry]

-----------------------------------------------------------------------------
(* FreeEnergyController *)

\* x * dt for a belief scalar x and a time dt, the whole seconds of dt and
\* the rest multiplied apart to stay within 32 bits.
Times_dt(x, dt) == x * (dt \div Second) + (x * (dt % Second)) \div Second

\* Mutant: attention and rhythm_alignment are not clamped.
updateUnclamped(currentBelief, obs, targetPattern) ==
    LET dt == obs.delta_time
        arousal == currentBelief.arousal
        attention == currentBelief.attention
        rhythm_alignment == currentBelief.rhythm_alignment
        expected_arousal == (3 * Unit) \div 10
        grounded == obs.heart_rate # 0 /\ obs.hr_confidence # 0 /\ obs.hr_confidence > 60
        normalized_hr == Min(Unit, Max(0, ((obs.heart_rate - 50) * Unit) \div 70))
        observed_arousal ==
            IF grounded THEN (arousal * 9 + normalized_hr) \div 10 ELSE arousal
        isDistracted == obs.user_interaction = "pause" \/ obs.visibilty_state = "hidden"
        error_arousal == Abs(observed_arousal - expected_arousal)
        error_attention == IF isDistracted THEN Unit ELSE 0
        F == (error_arousal * 4 + error_attention * 6 + (Unit - rhythm_alignment) * 3) \div 10
    IN [arousal |-> arousal + Times_dt(observed_arousal - arousal, dt),
        attention |->
            IF isDistracted THEN attention - Times_dt(Unit, dt)
            ELSE attention + Times_dt(Unit, dt) \div 10,
        rhythm_alignment |->
            IF isDistracted THEN rhythm_alignment - (5 * Times_dt(Unit, dt)) \div 10
            ELSE rhythm_alignment + (2 * Times_dt(Unit, dt)) \div 10,
        prediction_error |-> F]

update(currentBelief, obs, targetPattern) ==
    LET dt == obs.delta_time
        arousal == currentBelief.arousal
        attention == currentBelief.attention
        rhythm_alignment == currentBelief.rhythm_alignment
        expected_arousal == (3 * Unit) \div 10
        grounded == obs.heart_rate # 0 /\ obs.hr_confidence # 0 /\ obs.hr_confidence > 60
        normalized_hr == Min(Unit, Max(0, ((obs.heart_rate - 50) * Unit) \div 70))
        observed_arousal ==
            IF grounded THEN (arousal * 9 + normalized_hr) \div 10 ELSE arousal
        isDistracted == obs.user_interaction = "pause" \/ obs.visibilty_state = "hidden"
        error_arousal == Abs(observed_arousal - expected_arousal)
        error_attention == IF isDistracted THEN Unit ELSE 0
        F == (error_arousal * 4 + error_attention * 6 + (Unit - rhythm_alignment) * 3) \div 10
    IN [arousal |-> arousal + Times_dt(observed_arousal - arousal, dt),
        attention |->
            IF isDistracted THEN Max(0, attention - Times_dt(Unit, dt))
            ELSE Min(Unit, attention + Times_dt(Unit, dt) \div 10),
        rhythm_alignment |->
            IF isDistracted THEN Max(0, rhythm_alignment - (5 * Times_dt(Unit, dt)) \div 10)
            ELSE Min(Unit, rhythm_alignment + (2 * Times_dt(Unit, dt)) \div 10),
        prediction_error |-> F]

-----------------------------------------------------------------------------
(* SafetyPlane *)

\* Mutant: the lockout tests the status HALTED instead of SAFETY_LOCK.
lockoutEnforcementHalted(s, intention) ==
    s.status = "HALTED" /\ intention.type = "START_SESSION"

\* RULE 1: Lockout Enforcement
lockoutEnforcement(s, intention) ==
    s.status = "SAFETY_LOCK" /\ intention.type = "START_SESSION"

\* Mutant: the cutoff tests phaseElapsed instead of sessionDuration.
highEntropyCutoffPhaseElapsed(s, intention) ==
    /\ intention.type = "TICK"
    /\ s.status = "RUNNING"
    /\ s.belief.prediction_error > (95 * Unit) \div 100
    /\ s.phaseElapsed > 10 * Second

\* RULE 2: High Entropy Cutoff
highEntropyCutoff(s, intention) ==
    /\ intention.type = "TICK"
    /\ s.status = "RUNNING"
    /\ s.belief.prediction_error > (95 * Unit) \div 100
    /\ s.sessionDuration > 10 * Second

\* RULE 3: Pattern Suitability
patternSuitability(s, intention, now) ==
    /\ intention.type = "LOAD_PROTOCOL"
    /\ intention.patternId \in DOMAIN s.safetyRegistry
    /\ s.safetyRegistry[intention.patternId].safety_lock_until > now

\* Mutant: an allowed intention is returned instead of null.
interceptReturnsIntention(s, intention, now) ==
    IF lockoutEnforcement(s, intention) THEN SafetyInterdiction(100, "REJECT_START")
    ELSE IF highEntropyCutoff(s, intention) THEN SafetyInterdiction(95, "EMERGENCY_DAMPENING")
    ELSE IF patternSuitability(s, intention, now) THEN SafetyInterdiction(80, "PATTERN_LOCKED")
    ELSE intention

intercept(s, intention, now) ==
    IF lockoutEnforcement(s, intention) THEN SafetyInterdiction(100, "REJECT_START")
    ELSE IF highEntropyCutoff(s, intention) THEN SafetyInterdiction(95, "EMERGENCY_DAMPENING")
    ELSE IF patternSuitability(s, intention, now) THEN SafetyInterdiction(80, "PATTERN_LOCKED")
    ELSE NoOverride

\* The RuntimeState intercept leaves behind: it assigns to no field of it.
interceptState(s, intention, now) == s

-----------------------------------------------------------------------------
(* ZenBKernel.  k is the kernel object with its event store:               *)
(* [state, eventLog, storeUp, logBuffer].  env is what a call reads from   *)
(* outside the kernel: [now |-> Date.now(), hidden |-> document.hidden].   *)

LogBufferCap == 50

\* Mutant: nothing is cut off.
TakeAll(seq, n) == seq

Take(seq, n) == SubSeq(seq, 1, Min(n, Len(seq)))

Range(seq) == {seq[i] : i \in DOMAIN seq}
Remove(seq, cb) == SelectSeq(seq, LAMBDA x : x # cb)

\* A RuntimeState value in the hands of a callback.  Live is a reference to
\* this.state itself.  Copy(s) is the object {...this.state}: its own
\* top-level fields with the contents of s, and the belief and safetyRegistry
\* objects of the kernel, shared until the kernel assigns a new object to its
\* field.
NoValue == [ref |-> "none"]
Live == [ref |-> "state"]
Copy(s) == [ref |-> "copy", value |-> s, belief |-> TRUE, safetyRegistry |-> TRUE]

\* The contents of a value as its holder reads it, s being this.state.
Seen(v, s) ==
    IF v.ref = "state" THEN s
    ELSE IF v.ref = "copy"
    THEN [v.value EXCEPT !.belief = IF v.belief THEN s.belief ELSE @,
                         !.safetyRegistry = IF v.safetyRegistry THEN s.safetyRegistry ELSE @]
    ELSE NoValue

\* Ahead of this.state.<field> = a new object: the copies handed out keep
\* the object the field holds now.
detach(k, field) ==
    [k EXCEPT !.received =
        [cb \in DOMAIN k.received |->
            IF k.received[cb].ref = "copy"
            THEN [k.received[cb] EXCEPT ![field] = FALSE,
                                        !.value[field] = k.state[field]]
            ELSE k.received[cb]]]

\* cb(value), in the latest round: the callback keeps the value and reacts.
invoke(k, cb, value, reaction) ==
    [k EXCEPT !.received[cb] = value,
              !.rounds[Len(k.rounds)].to = Append(@, cb),
              !.subscribers = IF reaction.by = cb THEN Remove(@, reaction.target) ELSE @]

\* Set.prototype.forEach: the entries in insertion order, an entry deleted
\* before its turn is not visited, a deletion moves no other entry.
RECURSIVE forEach(_, _, _)
forEach(k, entries, reaction) ==
    IF entries = <<>> THEN k
    ELSE IF Head(entries) \in Range(k.subscribers)
    THEN forEach(invoke(k, Head(entries), Copy(k.state), reaction), Tail(entries), reaction)
    ELSE forEach(k, Tail(entries), reaction)

\* Array.prototype.forEach over an array the callbacks splice: by index.
RECURSIVE forEachIndex(_, _, _)
forEachIndex(k, i, reaction) ==
    IF i > Len(k.subscribers) THEN k
    ELSE forEachIndex(invoke(k, k.subscribers[i], Copy(k.state), reaction), i + 1, reaction)

NewRound(k, event) ==
    [k EXCEPT !.rounds = Append(@, [event |-> event, state |-> k.state, to |-> <<>>])]

\* Mutant: the subscribers are an array iterated by index.
notifyArray(k, event, env) ==
    forEachIndex(NewRound(k, event), 1, env.reaction)

\* subscribers.forEach(cb => cb({...state})), closing the dispatch of event.
notify(k, event, env) ==
    forEach(NewRound(k, event), k.subscribers, env.reaction)

RECURSIVE dispatch(_, _, _)

\* Mutant: the phase ends only when phaseElapsed exceeds phaseDuration.
handleTickStrict(k, dt, env) ==
    IF k.state.status # "RUNNING" /\ k.state.status # "PAUSED" THEN k
    ELSE
    LET obs == [delta_time |-> dt,
                visibilty_state |-> IF env.hidden THEN "hidden" ELSE "visible",
                user_interaction |-> IF k.state.status = "PAUSED" THEN "pause" ELSE "undefined",
                heart_rate |-> k.state.lastObservation.heart_rate,
                hr_confidence |-> k.state.lastObservation.hr_confidence]
        k1 == [detach(k, "belief") EXCEPT
                  !.state.belief = update(k.state.belief, obs, k.state.pattern)]
    IN  IF k1.state.status = "RUNNING" /\ k1.state.pattern # NULL
        THEN LET k2 == [k1 EXCEPT !.state.phaseElapsed = @ + dt,
                                  !.state.sessionDuration = @ + dt]
             IN  IF k2.state.phaseElapsed > k2.state.phaseDuration
                 THEN LET next == nextPhaseSkipZero(k2.state.phase, k2.state.pattern)
                          k3 == dispatch(k2, PhaseTransition(k2.state.phase, next), env)
                      IN  IF isCycleBoundary(next)
                          THEN dispatch(k3, CycleComplete(k3.state.cycleCount + 1), env)
                          ELSE k3
                 ELSE k2
        ELSE k1

\* Mutant: the physics step runs while PAUSED too.
handleTickPausedIntegrates(k, dt, env) ==
    IF k.state.status # "RUNNING" /\ k.state.status # "PAUSED" THEN k
    ELSE
    LET obs == [delta_time |-> dt,
                visibilty_state |-> IF env.hidden THEN "hidden" ELSE "visible",
                user_interaction |-> IF k.state.status = "PAUSED" THEN "pause" ELSE "undefined",
                heart_rate |-> k.state.lastObservation.heart_rate,
                hr_confidence |-> k.state.lastObservation.hr_confidence]
        k1 == [detach(k, "belief") EXCEPT
                  !.state.belief = update(k.state.belief, obs, k.state.pattern)]
    IN  IF k1.state.status \in {"RUNNING", "PAUSED"} /\ k1.state.pattern # NULL
        THEN LET k2 == [k1 EXCEPT !.state.phaseElapsed = @ + dt,
                                  !.state.sessionDuration = @ + dt]
             IN  IF k2.state.phaseElapsed >= k2.state.phaseDuration
                 THEN LET next == nextPhaseSkipZero(k2.state.phase, k2.state.pattern)
                          k3 == dispatch(k2, PhaseTransition(k2.state.phase, next), env)
                      IN  IF isCycleBoundary(next)
                          THEN dispatch(k3, CycleComplete(k3.state.cycleCount + 1), env)
                          ELSE k3
                 ELSE k2
        ELSE k1

handleTick(k, dt, env) ==
    IF k.state.status # "RUNNING" /\ k.state.status # "PAUSED" THEN k
    ELSE
    LET obs == [delta_time |-> dt,
                visibilty_state |-> IF env.hidden THEN "hidden" ELSE "visible",
                user_interaction |-> IF k.state.status = "PAUSED" THEN "pause" ELSE "undefined",
                heart_rate |-> k.state.lastObservation.heart_rate,
                hr_confidence |-> k.state.lastObservation.hr_confidence]
        k1 == [detach(k, "belief") EXCEPT
                  !.state.belief = update(k.state.belief, obs, k.state.pattern)]
    IN  IF k1.state.status = "RUNNING" /\ k1.state.pattern # NULL
        THEN LET k2 == [k1 EXCEPT !.state.phaseElapsed = @ + dt,
                                  !.state.sessionDuration = @ + dt]
             IN  IF k2.state.phaseElapsed >= k2.state.phaseDuration
                 THEN LET next == nextPhaseSkipZero(k2.state.phase, k2.state.pattern)
                          k3 == dispatch(k2, PhaseTransition(k2.state.phase, next), env)
                      IN  IF isCycleBoundary(next)
                          THEN dispatch(k3, CycleComplete(k3.state.cycleCount + 1), env)
                          ELSE k3
                 ELSE k2
        ELSE k1

\* Mutant: LOAD_PROTOCOL resets the whole belief to the priors.
reduceLoadProtocolPriors(s, event) ==
    IF s.status = "SAFETY_LOCK" THEN s
    ELSE IF event.patternId \in DOMAIN BREATHING_PATTERNS
    THEN [s EXCEPT !.pattern = event.patternId,
                   !.phase = "inhale",
                   !.phaseDuration = BREATHING_PATTERNS[event.patternId].timings.inhale,
                   !.phaseElapsed = 0,
                   !.cycleCount = 0,
                   !.sessionDuration = 0,
                   !.status = "IDLE",
                   !.belief = getInitialState.belief]
    ELSE s

\* Mutant: LOAD_PROTOCOL does not test for SAFETY_LOCK.
reduceLoadProtocolUnlocked(s, event) ==
    IF event.patternId \in DOMAIN BREATHING_PATTERNS
    THEN [s EXCEPT !.pattern = event.patternId,
                   !.phase = "inhale",
                   !.phaseDuration = BREATHING_PATTERNS[event.patternId].timings.inhale,
                   !.phaseElapsed = 0,
                   !.cycleCount = 0,
                   !.sessionDuration = 0,
                   !.status = "IDLE",
                   !.belief.rhythm_alignment = 0,
                   !.belief.prediction_error = 0]
    ELSE s

reduceLoadProtocol(s, event) ==
    IF s.status = "SAFETY_LOCK" THEN s
    ELSE IF event.patternId \in DOMAIN BREATHING_PATTERNS
    THEN [s EXCEPT !.pattern = event.patternId,
                   !.phase = "inhale",
                   !.phaseDuration = BREATHING_PATTERNS[event.patternId].timings.inhale,
                   !.phaseElapsed = 0,
                   !.cycleCount = 0,
                   !.sessionDuration = 0,
                   !.status = "IDLE",
                   !.belief.rhythm_alignment = 0,
                   !.belief.prediction_error = 0]
    ELSE s

\* Mutant: every interdiction locks, whatever its action.
reduceSafetyInterdictionAnyAction(s, event) ==
    [s EXCEPT !.status = "SAFETY_LOCK"]

reduceSafetyInterdiction(s, event) ==
    IF event.action = "EMERGENCY_DAMPENING" THEN [s EXCEPT !.status = "SAFETY_LOCK"] ELSE s

reducePhaseTransition(s, event) ==
    IF s.pattern # NULL
    THEN [s EXCEPT !.phase = event.to,
                   !.phaseElapsed = 0,
                   !.phaseDuration = BREATHING_PATTERNS[s.pattern].timings[event.to]]
    ELSE [s EXCEPT !.phase = event.to, !.phaseElapsed = 0]

\* Mutant: START_SESSION does not test for a pattern.
reduceStartsWithoutPattern(k, event, env) ==
    LET s == k.state IN
    CASE event.type = "BOOT" ->
            [k EXCEPT !.state.status = "IDLE"]
      [] event.type = "LOAD_PROTOCOL" ->
            IF s.status # "SAFETY_LOCK" /\ event.patternId \in DOMAIN BREATHING_PATTERNS
            THEN [detach(k, "belief") EXCEPT !.state = reduceLoadProtocol(s, event)]
            ELSE [k EXCEPT !.state = reduceLoadProtocol(s, event)]
      [] event.type = "START_SESSION" ->
            [k EXCEPT !.state.status = "RUNNING"]
      [] event.type = "INTERRUPTION" ->
            IF s.status = "RUNNING" THEN [k EXCEPT !.state.status = "PAUSED"] ELSE k
      [] event.type = "RESUME" ->
            IF s.status = "PAUSED" THEN [k EXCEPT !.state.status = "RUNNING"] ELSE k
      [] event.type = "HALT" ->
            [k EXCEPT !.state.status = "IDLE", !.state.phaseElapsed = 0]
      [] event.type = "SAFETY_INTERDICTION" ->
            [k EXCEPT !.state = reduceSafetyInterdiction(s, event)]
      [] event.type = "PHASE_TRANSITION" ->
            [k EXCEPT !.state = reducePhaseTransition(s, event)]
      [] event.type = "CYCLE_COMPLETE" ->
            [k EXCEPT !.state.cycleCount = event.count]
      [] event.type = "TICK" ->
            handleTick(k, event.dt, env)
      [] event.type = "ADAPTATION" -> k
      [] OTHER -> k

\* Mutant: HALT sets the status HALTED.
reduceHaltHalted(k, event, env) ==
    LET s == k.state IN
    CASE event.type = "BOOT" ->
            [k EXCEPT !.state.status = "IDLE"]
      [] event.type = "LOAD_PROTOCOL" ->
            IF s.status # "SAFETY_LOCK" /\ event.patternId \in DOMAIN BREATHING_PATTERNS
            THEN [detach(k, "belief") EXCEPT !.state = reduceLoadProtocol(s, event)]
            ELSE [k EXCEPT !.state = reduceLoadProtocol(s, event)]
      [] event.type = "START_SESSION" ->
            IF s.pattern # NULL THEN [k EXCEPT !.state.status = "RUNNING"] ELSE k
      [] event.type = "INTERRUPTION" ->
            IF s.status = "RUNNING" THEN [k EXCEPT !.state.status = "PAUSED"] ELSE k
      [] event.type = "RESUME" ->
            IF s.status = "PAUSED" THEN [k EXCEPT !.state.status = "RUNNING"] ELSE k
      [] event.type = "HALT" ->
            [k EXCEPT !.state.status = "HALTED", !.state.phaseElapsed = 0]
      [] event.type = "SAFETY_INTERDICTION" ->
            [k EXCEPT !.state = reduceSafetyInterdiction(s, event)]
      [] event.type = "PHASE_TRANSITION" ->
            [k EXCEPT !.state = reducePhaseTransition(s, event)]
      [] event.type = "CYCLE_COMPLETE" ->
            [k EXCEPT !.state.cycleCount = event.count]
      [] event.type = "TICK" ->
            handleTick(k, event.dt, env)
      [] event.type = "ADAPTATION" -> k
      [] OTHER -> k

reduce(k, event, env) ==
    LET s == k.state IN
    CASE event.type = "BOOT" ->
            [k EXCEPT !.state.status = "IDLE"]
      [] event.type = "LOAD_PROTOCOL" ->
            IF s.status # "SAFETY_LOCK" /\ event.patternId \in DOMAIN BREATHING_PATTERNS
            THEN [detach(k, "belief") EXCEPT !.state = reduceLoadProtocol(s, event)]
            ELSE [k EXCEPT !.state = reduceLoadProtocol(s, event)]
      [] event.type = "START_SESSION" ->
            IF s.pattern # NULL THEN [k EXCEPT !.state.status = "RUNNING"] ELSE k
      [] event.type = "INTERRUPTION" ->
            IF s.status = "RUNNING" THEN [k EXCEPT !.state.status = "PAUSED"] ELSE k
      [] event.type = "RESUME" ->
            IF s.status = "PAUSED" THEN [k EXCEPT !.state.status = "RUNNING"] ELSE k
      [] event.type = "HALT" ->
            [k EXCEPT !.state.status = "IDLE", !.state.phaseElapsed = 0]
      [] event.type = "SAFETY_INTERDICTION" ->
            [k EXCEPT !.state = reduceSafetyInterdiction(s, event)]
      [] event.type = "PHASE_TRANSITION" ->
            [k EXCEPT !.state = reducePhaseTransition(s, event)]
      [] event.type = "CYCLE_COMPLETE" ->
            [k EXCEPT !.state.cycleCount = event.count]
      [] event.type = "TICK" ->
            handleTick(k, event.dt, env)
      [] event.type = "ADAPTATION" -> k
      [] OTHER -> k

\* Mutant: the views are notified ahead of the reduction.
dispatchNotifiesFirst(k, intention, env) ==
    LET interdiction == intercept(k.state, intention, env.now)
        k0 == [k EXCEPT !.state = interceptState(k.state, intention, env.now)]
        eventToProcess == IF interdiction # NoOverride THEN interdiction ELSE intention
        k1 == [k0 EXCEPT !.eventLog = append(@, eventToProcess, k.storeUp),
                         !.logBuffer = Take(<<eventToProcess>> \o @, LogBufferCap)]
    IN reduce(notify(k1, eventToProcess, env), eventToProcess, env)

\* Mutant: an overridden intention is persisted ahead of its interdiction.
dispatchPersistsIntention(k, intention, env) ==
    LET interdiction == intercept(k.state, intention, env.now)
        k0 == [k EXCEPT !.state = interceptState(k.state, intention, env.now)]
        eventToProcess == IF interdiction # NoOverride THEN interdiction ELSE intention
        k1 == [k0 EXCEPT !.eventLog =
                            IF interdiction # NoOverride
                            THEN append(append(@, intention, k.storeUp), interdiction, k.storeUp)
                            ELSE append(@, intention, k.storeUp),
                         !.logBuffer = Take(<<eventToProcess>> \o @, LogBufferCap)]
    IN notify(reduce(k1, eventToProcess, env), eventToProcess, env)

dispatch(k, intention, env) ==
    LET interdiction == intercept(k.state, intention, env.now)
        k0 == [k EXCEPT !.state = interceptState(k.state, intention, env.now)]
        eventToProcess == IF interdiction # NoOverride THEN interdiction ELSE intention
        k1 == [k0 EXCEPT !.eventLog = append(@, eventToProcess, k.storeUp),
                         !.logBuffer = Take(<<eventToProcess>> \o @, LogBufferCap)]
    IN notify(reduce(k1, eventToProcess, env), eventToProcess, env)

-----------------------------------------------------------------------------
(* The state machine *)

\* The kernel as a call finds it; the rounds of the call start empty.
Kernel ==
    [state |-> state, eventLog |-> eventLog, storeUp |-> storeUp, logBuffer |-> logBuffer,
     subscribers |-> subscribers, received |-> received, rounds |-> <<>>]

NewKernel ==
    [state |-> getInitialState, eventLog |-> <<>>, storeUp |-> TRUE, logBuffer |-> <<>>,
     subscribers |-> <<>>, received |-> [cb \in Callbacks |-> NoValue], rounds |-> <<>>]

\* constructor(): the initial state, then the boot sequence.
Constructed == dispatch(NewKernel, Boot, NoEnv)

Init ==
    /\ state = Constructed.state
    /\ eventLog = Constructed.eventLog
    /\ logBuffer = Constructed.logBuffer
    /\ callCount = 1
    /\ lastIntention = Boot
    /\ lastEnv = NoEnv
    /\ storeUp = TRUE
    /\ lockOrigin = "none"
    /\ subscribers = Constructed.subscribers
    /\ received = Constructed.received
    /\ rounds = Constructed.rounds

\* One external call dispatch(intention), nested dispatches included.
DispatchStep(intention, env) ==
    LET k == dispatch(Kernel, intention, env)
        wasLocked == state.status = "SAFETY_LOCK"
        isLocked == k.state.status = "SAFETY_LOCK"
    IN /\ state' = k.state
       /\ eventLog' = k.eventLog
       /\ logBuffer' = k.logBuffer
       /\ subscribers' = k.subscribers
       /\ received' = k.received
       /\ rounds' = k.rounds
       /\ callCount' = callCount + 1
       /\ lastIntention' = intention
       /\ lastEnv' = env
       /\ storeUp' = storeUp
       /\ lockOrigin' =
            IF ~isLocked THEN "none"
            ELSE IF wasLocked THEN lockOrigin
            ELSE IF intercept(state, intention, env.now) # NoOverride THEN "guard"
            ELSE "caller"

\* What a dispatch of the intention reads from outside: Date.now() is compared
\* only by the guard's rule for a LOAD_PROTOCOL whose pattern has a profile,
\* document.hidden is read only by handleTick past its first return, and only
\* a subscribed callback reacts.
Envs(s, intention) ==
    {[now |-> now, hidden |-> hidden, reaction |-> reaction] :
        now \in IF /\ intention.type = "LOAD_PROTOCOL"
                   /\ intention.patternId \in DOMAIN s.safetyRegistry
                THEN Times ELSE {0},
        hidden \in IF intention.type = "TICK" /\ s.status \in {"RUNNING", "PAUSED"}
                   THEN BOOLEAN ELSE {FALSE},
        reaction \in {r \in Reactions : r = NoReaction \/ r.by \in Range(subscribers)}}

DispatchCall(intention, env) == callCount < MaxCalls /\ DispatchStep(intention, env)

Dispatch ==
    \E intention \in CallerEvents : \E env \in Envs(state, intention) :
        DispatchCall(intention, env)

\* A call that is no dispatch.
OtherCall ==
    /\ callCount < MaxCalls
    /\ callCount' = callCount + 1
    /\ lastIntention' = NoIntention
    /\ lastEnv' = NoEnv

\* Mutant: the observation goes through the pipeline as an event.
ingestObservationDispatched(k, obs) ==
    dispatch([k EXCEPT !.state.lastObservation = obs], Adaptation, NoEnv)

ingestObservation(k, obs) == [k EXCEPT !.state.lastObservation = obs]

loadSafetyRegistry(k, registry) ==
    [detach(k, "safetyRegistry") EXCEPT !.state.safetyRegistry = registry]

\* A call of a method that is no dispatch leaves the kernel as k.
MethodCall(k) ==
    /\ OtherCall
    /\ state' = k.state
    /\ eventLog' = k.eventLog
    /\ logBuffer' = k.logBuffer
    /\ subscribers' = k.subscribers
    /\ received' = k.received
    /\ rounds' = k.rounds
    /\ UNCHANGED <<storeUp, lockOrigin>>

IngestObservation ==
    \E obs \in Observations : MethodCall(ingestObservation(Kernel, obs))

LoadSafetyRegistry ==
    \E registry \in Registries : MethodCall(loadSafetyRegistry(Kernel, registry))

Next == Dispatch \/ IngestObservation \/ LoadSafetyRegistry

\* The kernel with no subscriber.
Spec == Init /\ [][Next]_vars

\* subscribe(cb): Set.add, then cb(this.state).
subscribe(k, cb) ==
    LET k1 == [k EXCEPT !.subscribers = IF cb \in Range(@) THEN @ ELSE Append(@, cb),
                        !.rounds = <<[event |-> NoIntention, state |-> k.state, to |-> <<>>]>>]
    IN invoke(k1, cb, Live, NoReaction)

\* The function subscribe(cb) returned: Set.delete.
unsubscribe(k, cb) == [k EXCEPT !.subscribers = Remove(@, cb)]

Subscribe == \E cb \in Callbacks : MethodCall(subscribe(Kernel, cb))

\* A callback that has subscribed holds its unsubscribe function.
Unsubscribe ==
    \E cb \in Callbacks :
        /\ received[cb] # NoValue
        /\ MethodCall(unsubscribe(Kernel, cb))

\* What a holder of a received value can assign through it.
Writes == {"status", "belief", "safetyRegistry"}

\* value.status = 'HALTED', value.belief.attention = 0, or
\* delete value.safetyRegistry[id] for every id, by the callback that holds
\* value: the assignment lands in the object the reference leads to.
write(k, cb, field) ==
    LET v == k.received[cb]
        written(s) ==
            CASE field = "status" -> [s EXCEPT !.status = "HALTED"]
              [] field = "belief" -> [s EXCEPT !.belief.attention = 0]
              [] field = "safetyRegistry" -> [s EXCEPT !.safetyRegistry = EmptyRegistry]
        inKernel == v.ref = "state" \/ (field # "status" /\ v[field])
    IN IF inKernel THEN [k EXCEPT !.state = written(@)]
       ELSE [k EXCEPT !.received[cb].value = written(@)]

SubscriberWrites ==
    \E cb \in Callbacks : \E field \in Writes :
        /\ received[cb] # NoValue
        /\ MethodCall(write(Kernel, cb, field))

\* The events useBreathEngine dispatches.
DriverEvents ==
    {LoadProtocol("4-7-8"), StartSession, Halt, Interruption, Resume}
    \cup {Tick(dt) : dt \in TickDts}

DriverDispatch ==
    \E intention \in DriverEvents : \E env \in Envs(state, intention) :
        DispatchCall(intention, env)

NextSubscribers ==
    \/ DriverDispatch
    \/ IngestObservation
    \/ LoadSafetyRegistry
    \/ Subscribe
    \/ Unsubscribe
    \/ SubscriberWrites

\* The kernel with useBreathEngine as its caller and the callbacks that
\* subscribe to it.
SpecSubscribers == Init /\ [][NextSubscribers]_vars

\* The same kernel over an event store that can stop accepting appends.
StoreFault ==
    /\ storeUp
    /\ OtherCall
    /\ storeUp' = FALSE
    /\ rounds' = <<>>
    /\ UNCHANGED <<state, eventLog, logBuffer, lockOrigin, subscribers, received>>

NextStoreFails == Next \/ StoreFault

SpecStoreFails == Init /\ [][NextStoreFails]_vars

\* A caller that loads a pattern, starts the session and then ticks, as the
\* start effect and the clock of useBreathEngine do, for as long as the event
\* log is shorter than MaxEvents.
LongRunDt == 2 * Second

LongRunLoad ==
    /\ state.pattern = NULL
    /\ DispatchStep(LoadProtocol("4-7-8"), NoEnv)

LongRunStart ==
    /\ state.pattern # NULL
    /\ state.status = "IDLE"
    /\ DispatchStep(StartSession, NoEnv)

LongRunTick ==
    /\ state.status = "RUNNING"
    /\ Len(eventLog) < MaxEvents
    /\ \E env \in Envs(state, Tick(LongRunDt)) : DispatchStep(Tick(LongRunDt), env)

NextLongRun == LongRunLoad \/ LongRunStart \/ LongRunTick

SpecLongRun == Init /\ [][NextLongRun]_vars

\* FreeEnergyController.update on its own: repeated calls from a belief
\* whose attention and rhythm_alignment are in [0, 1], each with a delta_time
\* in [0, 0.1] s.
BeliefDts == {0, Second \div 20, Second \div 10}

Beliefs ==
    {[arousal |-> Unit \div 2, attention |-> a, rhythm_alignment |-> r, prediction_error |-> 0] :
        a \in {0, Unit \div 2, Unit}, r \in {0, Unit}}

BeliefObservations ==
    {[delta_time |-> dt, visibilty_state |-> v, user_interaction |-> u,
      heart_rate |-> 0, hr_confidence |-> 0] :
        dt \in BeliefDts, v \in {"visible", "hidden"}, u \in {"undefined", "pause"}}

InitBelief ==
    /\ Init
    /\ \E belief \in Beliefs : state = [Constructed.state EXCEPT !.belief = belief]

UpdateBelief ==
    \E obs \in BeliefObservations :
        /\ state' = [state EXCEPT !.belief = update(state.belief, obs, state.pattern)]
        /\ UNCHANGED <<eventLog, logBuffer, callCount, lastIntention, lastEnv, storeUp,
                       lockOrigin, subscribers, received, rounds>>

SpecBelief == InitBelief /\ [][UpdateBelief]_vars

\* The step is an external call of dispatch.
IsDispatchStep == callCount' = callCount + 1 /\ lastIntention' # NoIntention

\* What the step appended to the event log.
Appended == SubSeq(eventLog', Len(eventLog) + 1, Len(eventLog'))

-----------------------------------------------------------------------------
(* Properties *)

EmergencyDampening == SafetyInterdiction(95, "EMERGENCY_DAMPENING")
RejectStart == SafetyInterdiction(100, "REJECT_START")
PatternLocked == SafetyInterdiction(80, "PATTERN_LOCKED")

\* C1: SAFETY_LOCK is sticky: once status is SAFETY_LOCK no dispatched event of
\* any variant (the driver's HALT included) makes status anything else.
C1_SafetyLockSticky ==
    [][state.status = "SAFETY_LOCK" => state'.status = "SAFETY_LOCK"]_vars

\* C2: whenever status is SAFETY_LOCK, the event that set it was an
\* EMERGENCY_DAMPENING interdiction the guard produced by overriding a TICK,
\* never an event a caller of dispatch supplied.
C2_LockOnlyByGuard ==
    state.status = "SAFETY_LOCK" => lockOrigin = "guard"

\* C3: a TICK dispatched while RUNNING with prediction_error > 0.95 and
\* sessionDuration > 10 is replaced by SAFETY_INTERDICTION{0.95,
\* EMERGENCY_DAMPENING}: that event is what is persisted, buffered and reduced,
\* status becomes SAFETY_LOCK and the tick algorithm does not run (no other
\* field of the state changes, no nested event is dispatched).
C3_HighEntropyCutoff ==
    [][(/\ IsDispatchStep
        /\ lastIntention'.type = "TICK"
        /\ state.status = "RUNNING"
        /\ state.belief.prediction_error * 100 > 95 * Unit
        /\ state.sessionDuration > 10 * Second)
       => (/\ Appended = <<EmergencyDampening>>
           /\ logBuffer' = Take(<<EmergencyDampening>> \o logBuffer, LogBufferCap)
           /\ state' = [state EXCEPT !.status = "SAFETY_LOCK"])]_vars

C3_Witness ==
    /\ lastIntention.type = "TICK"
    /\ Head(logBuffer) = EmergencyDampening
    /\ eventLog[Len(eventLog)] = EmergencyDampening
    /\ state.status = "SAFETY_LOCK"
    /\ lockOrigin = "guard"
    /\ state.sessionDuration > 10 * Second

\* C4: a START_SESSION dispatched while status is SAFETY_LOCK is replaced by
\* SAFETY_INTERDICTION{1.0, REJECT_START}: that event is what is appended to
\* the event log and the log buffer, START_SESSION is not reduced and status
\* stays SAFETY_LOCK, also when a pattern is loaded.
C4_LockoutEnforcement ==
    [][(/\ IsDispatchStep
        /\ lastIntention' = StartSession
        /\ state.status = "SAFETY_LOCK")
       => (/\ Appended = <<RejectStart>>
           /\ logBuffer' = Take(<<RejectStart>> \o logBuffer, LogBufferCap)
           /\ state'.status = "SAFETY_LOCK"
           /\ state' = state)]_vars

C4_Witness ==
    /\ lastIntention = StartSession
    /\ Head(logBuffer) = RejectStart
    /\ eventLog[Len(eventLog)] = RejectStart
    /\ state.status = "SAFETY_LOCK"
    /\ state.pattern # NULL

\* C5: a LOAD_PROTOCOL{patternId} dispatched while
\* safetyRegistry[patternId].safety_lock_until is in the future is replaced by
\* SAFETY_INTERDICTION{0.8, PATTERN_LOCKED}: that event is what is persisted
\* and reduced, and the whole RuntimeState is left as it was.
C5_PatternLockout ==
    [][(/\ IsDispatchStep
        /\ lastIntention'.type = "LOAD_PROTOCOL"
        /\ lastIntention'.patternId \in DOMAIN state.safetyRegistry
        /\ state.safetyRegistry[lastIntention'.patternId].safety_lock_until > lastEnv'.now)
       => (/\ Appended = <<PatternLocked>>
           /\ logBuffer' = Take(<<PatternLocked>> \o logBuffer, LogBufferCap)
           /\ state' = state)]_vars

C5_Witness ==
    /\ lastIntention = LoadProtocol("4-7-8")
    /\ Head(logBuffer) = PatternLocked
    /\ eventLog[Len(eventLog)] = PatternLocked
    /\ state.pattern = NULL
    /\ "4-7-8" \in DOMAIN state.safetyRegistry
    /\ state.safetyRegistry["4-7-8"].safety_lock_until > lastEnv.now

\* Every event the guard can be asked about: what callers pass and what
\* handleTick dispatches.
Intentions ==
    CallerEvents
    \cup {PhaseTransition(state.phase, to) : to \in BreathPhases}
    \cup {CycleComplete(state.cycleCount + 1)}

\* C6: for every state and intention, intercept returns no override or a
\* SAFETY_INTERDICTION, never another variant, and leaves the RuntimeState it
\* was given as it was.
C6_GuardTotalAndPure ==
    \A intention \in Intentions : \A now \in Times :
        /\ \/ intercept(state, intention, now) = NoOverride
           \/ intercept(state, intention, now).type = "SAFETY_INTERDICTION"
        /\ interceptState(state, intention, now) = state

C6_Witness ==
    /\ intercept(state, StartSession, 0) = RejectStart
    /\ intercept(state, Halt, 0) = NoOverride
    /\ \E now \in Times : intercept(state, LoadProtocol("4-7-8"), now) = PatternLocked

\* C7: an event whose append to the event log fails is not reduced: the
\* RuntimeState and the log buffer show no effect of it.
C7_WriteAheadOrdering ==
    [][(IsDispatchStep /\ ~storeUp) => (state' = state /\ logBuffer' = logBuffer)]_vars

\* Replay: the reducer alone, no guard, applied to a log in order from the
\* state of a new kernel.  A replay has no ingested observation.
RECURSIVE ReplayFrom(_, _, _, _)
ReplayFrom(k, log, i, env) ==
    IF i > Len(log) THEN k ELSE ReplayFrom(reduce(k, log[i], env), log, i + 1, env)

Replay(log, hidden) ==
    ReplayFrom(NewKernel, log, 1, [now |-> 0, hidden |-> hidden, reaction |-> NoReaction]).state

\* C8: after any sequence of dispatch and ingestObservation calls, replaying
\* the event log through the reducer alone reconstructs the RuntimeState in
\* every field except lastObservation.  (Stated for the states whose safety
\* registry is the initial one: loadSafetyRegistry is not among the calls the
\* claim is about.  The replay may run with the document hidden or visible.)
C8_ReplayDeterminism ==
    state.safetyRegistry = EmptyRegistry =>
        \E hidden \in BOOLEAN :
            [Replay(eventLog, hidden) EXCEPT !.lastObservation = state.lastObservation] = state

\* C9: cycleCount never decreases from one state to the next, except in a step
\* that reduces a LOAD_PROTOCOL, which sets it to 0.
C9_CycleCountMonotonic ==
    [][\/ state'.cycleCount >= state.cycleCount
       \/ /\ IsDispatchStep
          /\ Appended = <<lastIntention'>>
          /\ lastIntention'.type = "LOAD_PROTOCOL"
          /\ state'.cycleCount = 0]_vars

\* C10: a TICK{dt} reduced while RUNNING with a pattern loaded dispatches, when
\* phaseElapsed + dt >= phaseDuration, exactly one PHASE_TRANSITION from the
\* current phase to the sequencer's next phase, whatever the overshoot, and
\* then exactly one CYCLE_COMPLETE{cycleCount + 1} iff that next phase is
\* inhale; when phaseElapsed + dt < phaseDuration it dispatches neither.
C10_PhaseCrossing ==
    [][(/\ IsDispatchStep
        /\ lastIntention'.type = "TICK"
        /\ state.status = "RUNNING"
        /\ state.pattern # NULL
        /\ Len(Appended) >= 1
        /\ Appended[1] = lastIntention')
       => LET dt == lastIntention'.dt
              next == nextPhaseSkipZero(state.phase, state.pattern)
          IN  Appended =
                <<lastIntention'>>
                \o (IF state.phaseElapsed + dt >= state.phaseDuration
                    THEN <<PhaseTransition(state.phase, next)>>
                    ELSE <<>>)
                \o (IF state.phaseElapsed + dt >= state.phaseDuration /\ next = "inhale"
                    THEN <<CycleComplete(state.cycleCount + 1)>>
                    ELSE <<>>)]_vars

\* A tick that overshot the exhale phase and completed a cycle.
C10_Witness ==
    /\ lastIntention = Tick(11 * Second)
    /\ Len(logBuffer) >= 3
    /\ logBuffer[1] = CycleComplete(1)
    /\ logBuffer[2] = PhaseTransition("exhale", "inhale")
    /\ logBuffer[3] = Tick(11 * Second)
    /\ state.status = "RUNNING"
    /\ state.cycleCount = 1
    /\ state.phase = "inhale"

\* The events of a sequence, last first.
Reverse(seq) == [i \in 1..Len(seq) |-> seq[Len(seq) + 1 - i]]
Last(seq, n) == SubSeq(seq, Len(seq) - Min(n, Len(seq)) + 1, Len(seq))

\* C11: the log buffer holds at most 50 events and is the last min(50, n)
\* events appended to the event log, most recent first, the events of nested
\* dispatches included.
C11_RecentHistory ==
    /\ Len(logBuffer) <= LogBufferCap
    /\ logBuffer = Reverse(Last(eventLog, LogBufferCap))

C11_Witness ==
    /\ Len(eventLog) > LogBufferCap
    /\ Len(logBuffer) = LogBufferCap
    /\ logBuffer[1] = eventLog[Len(eventLog)]
    /\ logBuffer[LogBufferCap] = eventLog[Len(eventLog) - LogBufferCap + 1]
    /\ Boot \notin Range(logBuffer)
    /\ \E i \in 1..(LogBufferCap - 2) :
          /\ logBuffer[i].type = "CYCLE_COMPLETE"
          /\ logBuffer[i + 1].type = "PHASE_TRANSITION"
          /\ logBuffer[i + 2].type = "TICK"

\* The callbacks the rounds invoked.
Invoked(rs) == UNION {Range(rs[i].to) : i \in DOMAIN rs}

\* The step is a call that assigns to the kernel's state from inside.
IsKernelCall == IsDispatchStep \/ IngestObservation \/ LoadSafetyRegistry

\* The step is an assignment by callback cb through the value it holds.
IsWriteBy(cb) ==
    \E field \in Writes : received[cb] # NoValue /\ MethodCall(write(Kernel, cb, field))

\* C12: every value handed to a callback, by subscribe and by notify, is a
\* copy: a call of the kernel does not change what a value received earlier
\* reads as (for a callback the call does not invoke anew), and an assignment
\* a callback makes through its value, nested belief and safetyRegistry
\* included, does not change the kernel's RuntimeState.
C12_SnapshotIsolation ==
    [][\A cb \in Callbacks :
        /\ (IsKernelCall /\ received[cb] # NoValue /\ cb \notin Invoked(rounds'))
              => Seen(received'[cb], state') = Seen(received[cb], state)
        /\ IsWriteBy(cb) => state' = state]_vars

\* How many times the round invoked the callback.
Count(round, cb) == Cardinality({i \in DOMAIN round.to : round.to[i] = cb})

Before(seq, x, y) ==
    \E i \in DOMAIN seq : \E j \in DOMAIN seq : i <= j /\ seq[i] = x /\ seq[j] = y

\* The call's reaction has a subscribed callback call the unsubscribe function
\* of cb from inside its invocation.
UnsubscribedInside(cb, reaction) ==
    reaction.target = cb /\ reaction.by \in Range(subscribers)

\* The step is a call subscribe(cb).
IsSubscribe(cb) == MethodCall(subscribe(Kernel, cb))

\* C13: subscribe(cb) invokes cb once, at once, with the current state; a
\* dispatch makes one round of invocations for every event it processes
\* (nested events included) and a round invokes every subscribed callback
\* exactly once and no other callback; a callback whose unsubscribe function
\* was called is not invoked from then on, also when the call came from inside
\* a callback of the round, which neither skips nor repeats another
\* subscriber; no other call invokes a callback.
C13_SubscriptionProtocol ==
    [][/\ \A cb \in Callbacks :
            IsSubscribe(cb)
                => /\ Len(rounds') = 1
                   /\ rounds'[1].to = <<cb>>
                   /\ rounds'[1].state = state
                   /\ state' = state
                   /\ Count([to |-> subscribers'], cb) = 1
       /\ IsDispatchStep =>
            /\ Len(rounds') = Len(Appended)
            /\ \A cb \in Callbacks : \A i \in DOMAIN rounds' :
                 Count(rounds'[i], cb) =
                    IF cb \notin Range(subscribers) THEN 0
                    ELSE IF ~UnsubscribedInside(cb, lastEnv'.reaction) THEN 1
                    ELSE IF i = 1 /\ Before(subscribers, cb, lastEnv'.reaction.by) THEN 1
                    ELSE 0
            /\ \A cb \in Callbacks :
                 cb \in Range(subscribers') <=>
                    (cb \in Range(subscribers) /\ ~UnsubscribedInside(cb, lastEnv'.reaction))
       /\ (~IsDispatchStep /\ \A cb \in Callbacks : ~IsSubscribe(cb))
            => Invoked(rounds') = {}]_vars

C13_Witness ==
    /\ lastIntention # NoIntention
    /\ lastEnv.reaction = [by |-> "a", target |-> "a"]
    /\ Len(rounds) = 1
    /\ rounds[1].to = <<"a", "b">>
    /\ subscribers = <<"b">>

\* C14: from a belief with attention and rhythm_alignment in [0, 1], any
\* number of update calls with delta_time in [0, 0.1] and any mix of
\* distracted and undistracted observations keeps both in [0, 1].
C14_BeliefBounded ==
    /\ 0 <= state.belief.attention /\ state.belief.attention <= Unit
    /\ 0 <= state.belief.rhythm_alignment /\ state.belief.rhythm_alignment <= Unit

\* Undistracted updates have brought both to 1.0 and held them there.
C14_Witness ==
    /\ state.belief.attention = Unit
    /\ state.belief.rhythm_alignment = Unit
    /\ state.belief.prediction_error = (4 * Abs(state.belief.arousal - (3 * Unit) \div 10)) \div 10

\* The dispatched intention is one the reducer has no transition for in the
\* state it finds.
Illegal(s, intention) ==
    \/ intention.type = "START_SESSION" /\ s.pattern = NULL
    \/ intention.type = "RESUME" /\ s.status # "PAUSED"
    \/ intention.type = "INTERRUPTION" /\ s.status # "RUNNING"
    \/ intention.type = "LOAD_PROTOCOL" /\ intention.patternId \notin DOMAIN BREATHING_PATTERNS
    \/ intention.type = "LOAD_PROTOCOL" /\ s.status = "SAFETY_LOCK"

\* C15: a START_SESSION with no pattern loaded, a RESUME while not PAUSED, an
\* INTERRUPTION while not RUNNING, a LOAD_PROTOCOL of an unknown pattern id
\* and a LOAD_PROTOCOL while SAFETY_LOCK leave every field of the RuntimeState
\* as it was; one event is still appended to the log and the buffer (the
\* intention, or the guard's interdiction of it) and one round of
\* notifications is still made.
C15_IllegalIntentionNoOp ==
    [][(IsDispatchStep /\ Illegal(state, lastIntention'))
       => /\ state' = state
          /\ Appended =
                <<IF lastIntention' = StartSession /\ state.status = "SAFETY_LOCK"
                  THEN RejectStart
                  ELSE IF /\ lastIntention'.type = "LOAD_PROTOCOL"
                          /\ lastIntention'.patternId \in DOMAIN state.safetyRegistry
                          /\ state.safetyRegistry[lastIntention'.patternId].safety_lock_until
                                > lastEnv'.now
                  THEN PatternLocked
                  ELSE lastIntention'>>
          /\ logBuffer' = Take(Appended \o logBuffer, LogBufferCap)
          /\ Len(rounds') = 1
          /\ rounds'[1].event = Appended[1]]_vars

\* A LOAD_PROTOCOL of a known pattern, reduced while SAFETY_LOCK.
C15_Witness ==
    /\ lastIntention = LoadProtocol("4-7-8")
    /\ state.status = "SAFETY_LOCK"
    /\ state.pattern = NULL
    /\ Head(logBuffer) = LoadProtocol("4-7-8")
    /\ eventLog[Len(eventLog)] = LoadProtocol("4-7-8")
    /\ Len(rounds) = 1

\* C16: a call ingestObservation(obs) changes lastObservation and nothing
\* else of the RuntimeState, appends nothing to the event log or the log
\* buffer (no guard rule puts an interdiction there) and makes no round of
\* notifications: no callback is invoked.
C16_IngestBypassesPipeline ==
    [][IngestObservation
       => /\ state'.lastObservation \in Observations
          /\ state' = [state EXCEPT !.lastObservation = state'.lastObservation]
          /\ eventLog' = eventLog
          /\ logBuffer' = logBuffer
          /\ rounds' = <<>>
          /\ received' = received
          /\ subscribers' = subscribers]_vars

\* An observation ingested behind the back of a subscribed callback.
C16_Witness ==
    /\ lastIntention = NoIntention
    /\ rounds = <<>>
    /\ subscribers = <<"a">>
    /\ received["a"].ref = "copy"
    /\ received["a"].value.lastObservation = NoObservation
    /\ state.lastObservation \in Observations
    /\ state.lastObservation # NoObservation

\* The events of the rounds, in the order the rounds were made.
RoundEvents(rs) == [i \in DOMAIN rs |-> rs[i].event]

\* C17: every invocation of dispatch, external or nested, appends exactly one
\* event to the event log and does so before it reduces it: the guard's
\* SAFETY_INTERDICTION when a rule matches, else the intention.  An
\* overridden intention is neither appended nor reduced (the state shows the
\* interdiction's effect only), and the interdiction is the newest event of
\* the log and of the buffer.  The invocations are counted by the rounds of
\* notifications, one at the end of each.
C17_OneEventPerDispatch ==
    [][IsDispatchStep
       => LET override == intercept(state, lastIntention', lastEnv'.now)
              n == Len(rounds')
          IN  /\ Len(Appended) = n
              /\ Appended = <<rounds'[n].event>> \o SubSeq(RoundEvents(rounds'), 1, n - 1)
              /\ logBuffer' = Take(Reverse(Appended) \o logBuffer, LogBufferCap)
              /\ \A i \in 2..n : Appended[i].type \in {"PHASE_TRANSITION", "CYCLE_COMPLETE"}
              /\ override = NoOverride => Appended[1] = lastIntention'
              /\ override # NoOverride =>
                    /\ Appended = <<override>>
                    /\ eventLog'[Len(eventLog')] = override
                    /\ Head(logBuffer') = override
                    /\ state' = IF override = EmergencyDampening
                                THEN [state EXCEPT !.status = "SAFETY_LOCK"]
                                ELSE state]_vars

\* A pattern is loaded and a START_SESSION was overridden: it did not start.
C17_Witness ==
    /\ lastIntention = StartSession
    /\ state.pattern # NULL
    /\ state.status = "SAFETY_LOCK"
    /\ RoundEvents(rounds) = <<RejectStart>>
    /\ eventLog[Len(eventLog)] = RejectStart
    /\ eventLog[Len(eventLog) - 1] # StartSession
    /\ Head(logBuffer) = RejectStart

\* The TICK of the step is reduced while RUNNING and its dt takes phaseElapsed
\* to phaseDuration or beyond.
TickCrossesPhase ==
    /\ IsDispatchStep
    /\ lastIntention'.type = "TICK"
    /\ state.status = "RUNNING"
    /\ state.pattern # NULL
    /\ Appended[1] = lastIntention'
    /\ state.phaseElapsed + lastIntention'.dt >= state.phaseDuration

\* C18: when a TICK crosses a phase boundary the nested PHASE_TRANSITION and
\* then the nested CYCLE_COMPLETE run the whole pipeline inside the outer
\* dispatch: the log order is TICK, PHASE_TRANSITION, CYCLE_COMPLETE; the
\* round of notifications of PHASE_TRANSITION comes first and shows the new
\* phase, that of CYCLE_COMPLETE second and shows the new cycleCount, that of
\* the TICK last; the last round shows the state the call leaves, so nothing
\* is pending when the outer dispatch returns.
C18_ReentrantOrdering ==
    [][TickCrossesPhase
       => LET tick == lastIntention'
              next == nextPhaseSkipZero(state.phase, state.pattern)
              transition == PhaseTransition(state.phase, next)
              complete == CycleComplete(state.cycleCount + 1)
              n == Len(rounds')
          IN  /\ Appended = IF next = "inhale" THEN <<tick, transition, complete>>
                            ELSE <<tick, transition>>
              /\ RoundEvents(rounds') = IF next = "inhale" THEN <<transition, complete, tick>>
                                        ELSE <<transition, tick>>
              /\ rounds'[1].state.phase = next
              /\ rounds'[1].state.phaseElapsed = 0
              /\ rounds'[1].state.sessionDuration = state.sessionDuration + tick.dt
              /\ rounds'[1].state.cycleCount = state.cycleCount
              /\ next = "inhale" => rounds'[2].state.cycleCount = state.cycleCount + 1
              /\ rounds'[n].state = state'
              /\ rounds'[n - 1].state = state']_vars

\* A tick has ended the exhale phase and the first cycle.
C18_Witness ==
    /\ lastIntention = Tick(11 * Second)
    /\ RoundEvents(rounds) =
            <<PhaseTransition("exhale", "inhale"), CycleComplete(1), Tick(11 * Second)>>
    /\ SubSeq(eventLog, Len(eventLog) - 2, Len(eventLog)) =
            <<Tick(11 * Second), PhaseTransition("exhale", "inhale"), CycleComplete(1)>>
    /\ rounds[1].state.phase = "inhale"
    /\ rounds[1].state.cycleCount = 0
    /\ rounds[2].state.cycleCount = 1
    /\ rounds[3].state = state

\* C19: a LOAD_PROTOCOL that is reduced with a pattern id of the catalog
\* while status is not SAFETY_LOCK sets pattern to that pattern, phase to
\* inhale, phaseDuration to the pattern's inhale duration, phaseElapsed,
\* cycleCount and sessionDuration to 0, status to IDLE (from RUNNING and
\* PAUSED too), belief.rhythm_alignment and belief.prediction_error to 0, and
\* leaves safetyRegistry, belief.arousal, belief.attention, bootTimestamp and
\* lastObservation as they were.
C19_LoadProtocolEffect ==
    [][(/\ IsDispatchStep
        /\ lastIntention'.type = "LOAD_PROTOCOL"
        /\ Appended = <<lastIntention'>>
        /\ lastIntention'.patternId \in DOMAIN BREATHING_PATTERNS
        /\ state.status # "SAFETY_LOCK")
       => /\ state'.pattern = lastIntention'.patternId
          /\ state'.phase = "inhale"
          /\ state'.phaseDuration = BREATHING_PATTERNS[lastIntention'.patternId].timings.inhale
          /\ state'.phaseElapsed = 0
          /\ state'.cycleCount = 0
          /\ state'.sessionDuration = 0
          /\ state'.status = "IDLE"
          /\ state'.belief.rhythm_alignment = 0
          /\ state'.belief.prediction_error = 0
          /\ state'.safetyRegistry = state.safetyRegistry
          /\ state'.belief.arousal = state.belief.arousal
          /\ state'.belief.attention = state.belief.attention
          /\ state'.bootTimestamp = state.bootTimestamp
          /\ state'.lastObservation = state.lastObservation
          /\ DOMAIN state' = DOMAIN state
          /\ DOMAIN state'.belief = DOMAIN state.belief]_vars

\* A pattern loaded over a session that had ticked.
C19_Witness ==
    /\ lastIntention = LoadProtocol("4-7-8")
    /\ Head(logBuffer) = LoadProtocol("4-7-8")
    /\ Len(logBuffer) >= 2
    /\ logBuffer[2].type \in {"TICK", "PHASE_TRANSITION"}
    /\ state.status = "IDLE"
    /\ state.pattern = "4-7-8"
    /\ state.belief.attention # getInitialState.belief.attention
    /\ state.belief.rhythm_alignment = 0
    /\ state.sessionDuration = 0

\* C20: a TICK reduced while PAUSED runs the belief estimator with the pause
\* as a distraction (attention and rhythm_alignment fall by dt and dt / 2 down
\* to 0 and do not increase, prediction_error is computed anew with the
\* attention error in it) and integrates no time: phaseElapsed,
\* sessionDuration, phase and cycleCount stay, as does every field but the
\* belief, and no PHASE_TRANSITION or CYCLE_COMPLETE is dispatched.
C20_PausedTick ==
    [][(/\ IsDispatchStep
        /\ lastIntention'.type = "TICK"
        /\ state.status = "PAUSED")
       => LET dt == lastIntention'.dt
              paused == [delta_time |-> dt,
                         visibilty_state |-> IF lastEnv'.hidden THEN "hidden" ELSE "visible",
                         user_interaction |-> "pause",
                         heart_rate |-> state.lastObservation.heart_rate,
                         hr_confidence |-> state.lastObservation.hr_confidence]
          IN  /\ Appended = <<lastIntention'>>
              /\ RoundEvents(rounds') = <<lastIntention'>>
              /\ state' = [state EXCEPT !.belief = state'.belief]
              /\ state'.belief.attention = Max(0, state.belief.attention - Times_dt(Unit, dt))
              /\ state'.belief.rhythm_alignment =
                    Max(0, state.belief.rhythm_alignment - Times_dt(Unit, dt) \div 2)
              /\ state'.belief.attention <= state.belief.attention
              /\ state'.belief.rhythm_alignment <= state.belief.rhythm_alignment
              /\ state'.belief.prediction_error >= (6 * Unit) \div 10
              /\ state'.belief.prediction_error =
                    update(state.belief, paused, state.pattern).prediction_error]_vars

\* A tick longer than the inhale phase, reduced while PAUSED.
C20_Witness ==
    /\ lastIntention = Tick(11 * Second)
    /\ Head(logBuffer) = Tick(11 * Second)
    /\ state.status = "PAUSED"
    /\ state.phase = "inhale"
    /\ state.phaseElapsed < state.phaseDuration
    /\ state.sessionDuration = 0
    /\ state.belief.attention = 0
    /\ state.belief.prediction_error >= (6 * Unit) \div 10

\* C21: in every state, status RUNNING or PAUSED implies that a pattern is
\* loaded, and no step takes pattern from a loaded pattern back to null.
C21_ActiveHasPattern ==
    [][/\ state.status \in {"RUNNING", "PAUSED"} => state.pattern # NULL
       /\ state'.status \in {"RUNNING", "PAUSED"} => state'.pattern # NULL
       /\ state.pattern # NULL => state'.pattern # NULL]_vars

\* A session paused after a START_SESSION that found no pattern, a load, a
\* start and a LOAD_PROTOCOL of an unknown pattern id.
C21_Witness ==
    /\ state.status \in {"RUNNING", "PAUSED"}
    /\ state.pattern = "4-7-8"
    /\ Len(eventLog) >= 5
    /\ \/ eventLog[2] = StartSession
       \/ eventLog[Len(eventLog)] = LoadProtocol("unknown")
    /\ \E i \in 3..Len(eventLog) : eventLog[i] = StartSession

\* The status values the kernel assigns.
AssignedStatuses == {"IDLE", "RUNNING", "PAUSED", "SAFETY_LOCK"}

\* C22: the declared status HALTED is never reached: in every state status is
\* one of IDLE, RUNNING, PAUSED, SAFETY_LOCK, and a dispatched HALT sets
\* status to IDLE and phaseElapsed to 0 and nothing else.
C22_HaltedUnreachable ==
    [][/\ state.status \in AssignedStatuses
       /\ state'.status \in AssignedStatuses
       /\ (IsDispatchStep /\ lastIntention' = Halt)
            => /\ Appended = <<Halt>>
               /\ state' = [state EXCEPT !.status = "IDLE", !.phaseElapsed = 0]]_vars

\* A HALT has ended a running session that had ticked.
C22_Witness ==
    /\ lastIntention = Halt
    /\ Head(logBuffer) = Halt
    /\ Len(logBuffer) >= 2
    /\ logBuffer[2].type = "TICK"
    /\ state.status = "IDLE"
    /\ state.phaseElapsed = 0
    /\ state.sessionDuration > 0
    /\ state.pattern # NULL

====
